---- MODULE Spec2Model ----
(***************************************************************************)
(* Marketing analytics ETL: campaign id normalisation, metric derivation,  *)
(* cleaning and merging of the per-platform tables (etl/clean_merge.py)    *)
(* and the DuckDB load (etl/load_to_duckdb.py); load_data and the filter,  *)
(* KPIs, grouped frames and top products of main (dashboard/app.py).       *)
(*                                                                         *)
(* Strings are sequences of one-character strings, so that strip(),        *)
(* startswith() and concatenation are computed character by character.     *)
(***************************************************************************)
EXTENDS Integers, Sequences, FiniteSets, TLC

VARIABLES
    cur,        \* the latest call of normalize_campaign_id: arguments and result
    prev,       \* the call before it
    mrow,       \* the row handed to compute_metrics
    mout,       \* the row compute_metrics returned for it
    googleFile,     \* data/raw/google_ads.csv: Absent or its rows
    facebookFile,   \* data/raw/facebook_ads.csv: Absent or its rows
    unifiedCsv,     \* data/clean/unified_ads.csv: Absent or its rows
    console,        \* the "not found" lines clean_and_merge has printed
    cmResult,       \* how clean_and_merge ended: "none", "returned", "raised"
    store,          \* the DuckDB file: whether it exists, its table, its indexes
    lpc,            \* where load_to_duckdb stands
    ldf,            \* the DataFrame load_to_duckdb read from the CSV
    storeBefore,    \* the store as it was when the load began
    report,         \* the summary clean_and_merge printed, NoReport before it
    demo,           \* the frame generate_demo_data returns in this session
    cache,          \* what st.cache_data holds for load_data(db_path)
    view,           \* the frame the latest call of load_data returned
    dash            \* what the latest run of the dashboard's main computed

normVars == <<cur, prev>>
metricVars == <<mrow, mout>>
fileVars == <<googleFile, facebookFile>>
cleanVars == <<unifiedCsv, console, cmResult, report>>
loadVars == <<store, lpc, ldf, storeBefore>>
dashVars == <<demo, cache, view, dash>>
pipeVars == <<googleFile, facebookFile, unifiedCsv, console, cmResult, store,
              lpc, ldf, storeBefore, report, demo, cache, view, dash>>

vars == <<cur, prev, mrow, mout, googleFile, facebookFile, unifiedCsv, console,
          cmResult, store, lpc, ldf, storeBefore, report, demo, cache, view,
          dash>>

----------------------------------------------------------------------------
(* Bounds of the model *)

\* longest raw campaign id drawn as an input of normalize_campaign_id
MaxIdLen == 2

\* largest counter or amount of the contiguous range drawn for a row handed to
\* compute_metrics
MaxCount == 2

\* most rows the two raw files hold together
MaxRows == 3

----------------------------------------------------------------------------
(* Strings *)

\* the characters raw ids are drawn from, in code point order
CharOrder == <<" ", "_", "f", "g">>

Chars == {CharOrder[i] : i \in 1..Len(CharOrder)}

\* all strings over Chars of length at most n
Strs(n) == UNION {[1..k -> Chars] : k \in 0..n}

\* the missing value of a column, the one pd.isna() answers True for; it is
\* no string over Chars
Null == <<"NaN">>

\* the literal "unknown" of the f-string f"{platform}_unknown"
Unknown == <<"u", "n", "k", "n", "o", "w", "n">>

Underscore == <<"_">>

\* str.startswith(prefix)
startswith(s, prefix) ==
    /\ Len(prefix) <= Len(s)
    /\ SubSeq(s, 1, Len(prefix)) = prefix

\* str.strip(): the string without its leading and trailing whitespace
RECURSIVE lstrip(_)
lstrip(s) ==
    IF s # <<>> /\ Head(s) = " " THEN lstrip(Tail(s)) ELSE s

RECURSIVE rstrip(_)
rstrip(s) ==
    IF s # <<>> /\ s[Len(s)] = " " THEN rstrip(SubSeq(s, 1, Len(s) - 1)) ELSE s

strip(s) == rstrip(lstrip(s))

----------------------------------------------------------------------------
(* Numbers *)

\* A float64 value is modelled by the exact fraction <<n, d>>, d # 0; the
\* missing value pd.NA / NaN by the empty tuple. Rounded metrics are integers
\* counted in hundredths (1250 is 12.50).
NA == <<>>

Abs(x) == IF x < 0 THEN -x ELSE x

\* the value of a numeric column as a fraction
num(x) == <<x, 1>>

\* Series.replace(0, pd.NA) on one value
replace_zero(q) == IF q # NA /\ q[1] = 0 THEN NA ELSE q

\* the division of two values of a Series: missing when either is missing
divide(p, q) == IF p = NA \/ q = NA THEN NA ELSE <<p[1] * q[2], p[2] * q[1]>>

\* q * k for a value q
times(q, k) == IF q = NA THEN NA ELSE <<q[1] * k, q[2]>>

\* Series.fillna(0) on one value
fillna(q) == IF q = NA THEN num(0) ELSE q

\* Series.round(2) on one value, in hundredths: numpy rounds to the nearest
\* hundredth and an exact half to the even one
round2(q) ==
    LET n == IF q[2] < 0 THEN -(q[1] * 100) ELSE q[1] * 100
        d == Abs(q[2])
        f == n \div d
        r == n % d
    IN  IF 2 * r < d THEN f
        ELSE IF 2 * r > d THEN f + 1
        ELSE IF f % 2 = 0 THEN f ELSE f + 1

\* no row handed to compute_metrics yet, no call of the normaliser yet
NoRow == [kind |-> "none"]

NoCall == [kind |-> "none"]

\* a file that does not exist (os.path.exists is False)
Absent == <<[missing |-> "file"]>>

\* a DuckDB file without the table
NoTable == <<[missing |-> "table"]>>

NoStore == [file |-> FALSE, table |-> NoTable, indexes |-> {}]

\* clean_and_merge has printed no summary
NoReport == [kind |-> "none"]

\* st.cache_data holds nothing for load_data
NoFrame == <<[missing |-> "frame"]>>

\* load_data has not been called
NoView == [frame |-> NoFrame, at |-> "never"]

\* the dashboard's main has not run
NoDash == [kind |-> "none"]

\* no session of the dashboard: the dashboard part of the state in the
\* specifications of the pipeline and of the pure functions
DashboardIdle ==
    /\ demo = <<>>
    /\ cache = NoFrame
    /\ view = NoView
    /\ dash = NoDash

\* no file, nothing run: the pipeline part of the state in the specifications
\* of the pure functions
PipelineIdle ==
    /\ googleFile = Absent
    /\ facebookFile = Absent
    /\ unifiedCsv = Absent
    /\ console = {}
    /\ cmResult = "none"
    /\ store = NoStore
    /\ lpc = "idle"
    /\ ldf = <<>>
    /\ storeBefore = NoStore
    /\ report = NoReport
    /\ DashboardIdle

----------------------------------------------------------------------------
(* etl/clean_merge.py: compute_metrics *)

\* the four metric columns of one row
compute_metrics(row) ==
    [ctr |-> round2(fillna(times(divide(num(row.clicks),
                                        replace_zero(num(row.impressions))),
                                 100))),
     cpc |-> round2(fillna(divide(num(row.cost),
                                  replace_zero(num(row.clicks))))),
     roas |-> round2(fillna(divide(num(row.revenue),
                                   replace_zero(num(row.cost))))),
     conversion_rate |->
         round2(fillna(times(divide(num(row.conversions),
                                    replace_zero(num(row.clicks))), 100)))]

\* the values of a numeric column once pd.to_numeric has run: a contiguous
\* range around 0 and 8, whose quotients fall on exact halves of a hundredth
Counts == (-1..MaxCount) \cup {8}

MetricRows ==
    [kind : {"row"}, impressions : Counts, clicks : Counts,
     conversions : Counts, cost : Counts, revenue : Counts]

\* a row is handed to compute_metrics
ComputeMetrics ==
    /\ mout = NoRow
    /\ mout' = compute_metrics(mrow)
    /\ UNCHANGED <<cur, prev, mrow, pipeVars>>

InitMetrics ==
    /\ mrow \in MetricRows
    /\ mout = NoRow
    /\ cur = NoCall
    /\ prev = NoCall
    /\ PipelineIdle

NextMetrics == ComputeMetrics

SpecMetrics == InitMetrics /\ [][NextMetrics]_vars

\* r is q rounded to a hundredth: no hundredth is nearer to q
IsRounded(r, n, d) == 2 * Abs(r * d - n * 100) <= d

\* C1: ctr = round(clicks/impressions*100, 2) when impressions > 0, else 0;
\* cpc = round(cost/clicks, 2) when clicks > 0, else 0; roas =
\* round(revenue/cost, 2) when cost > 0, else 0; conversion_rate =
\* round(conversions/clicks*100, 2) when clicks > 0, else 0; every metric is a
\* number.
C1_Metrics ==
    mout # NoRow =>
        /\ mout.ctr \in Int /\ mout.cpc \in Int
        /\ mout.roas \in Int /\ mout.conversion_rate \in Int
        /\ IF mrow.impressions > 0
           THEN IsRounded(mout.ctr, mrow.clicks * 100, mrow.impressions)
           ELSE mout.ctr = 0
        /\ IF mrow.clicks > 0
           THEN /\ IsRounded(mout.cpc, mrow.cost, mrow.clicks)
                /\ IsRounded(mout.conversion_rate, mrow.conversions * 100,
                             mrow.clicks)
           ELSE mout.cpc = 0 /\ mout.conversion_rate = 0
        /\ IF mrow.cost > 0
           THEN IsRounded(mout.roas, mrow.revenue, mrow.cost)
           ELSE mout.roas = 0

\* C1 on the rows whose counters and amounts are all at least 0
C1_MetricsOfNonNegativeRows ==
    /\ mrow.impressions >= 0 /\ mrow.clicks >= 0 /\ mrow.conversions >= 0
    /\ mrow.cost >= 0 /\ mrow.revenue >= 0
    => C1_Metrics

----------------------------------------------------------------------------
(* etl/clean_merge.py: normalize_campaign_id *)

\* the normaliser without the strip() of line 30
normalize_without_strip(campaign_id, platform) ==
    IF campaign_id = Null
    THEN platform \o Underscore \o Unknown
    ELSE IF ~startswith(campaign_id, platform)
         THEN platform \o Underscore \o campaign_id
         ELSE campaign_id

\* the normaliser that never prepends the platform to a present id
normalize_without_prefix(campaign_id, platform) ==
    IF campaign_id = Null
    THEN platform \o Underscore \o Unknown
    ELSE strip(campaign_id)

\* the normaliser that takes an empty or blank id for a missing one
normalize_blank_as_missing(campaign_id, platform) ==
    IF campaign_id = Null \/ strip(campaign_id) = <<>>
    THEN platform \o Underscore \o Unknown
    ELSE LET id == strip(campaign_id)
         IN  IF ~startswith(id, platform)
             THEN platform \o Underscore \o id
             ELSE id

\* lines 15-34: the unknown id of the platform for a missing id; otherwise the
\* stripped id, with the platform and an underscore before it unless it
\* starts with the platform already
normalize_campaign_id(campaign_id, platform) ==
    IF campaign_id = Null
    THEN platform \o Underscore \o Unknown
    ELSE LET id == strip(campaign_id)
         IN  IF ~startswith(id, platform)
             THEN platform \o Underscore \o id
             ELSE id

\* the platform tags the normaliser is called with: the two of the
\* repository's data (abbreviated), a tag that extends another one, and a tag
\* as a CSV cell with a blank after the comma is read
Platforms == {<<"g">>, <<"f">>, <<"g", "_">>, <<"g", "f">>, <<" ", "g">>}

RawIds == Strs(MaxIdLen) \cup {Null, Unknown}

\* a call of normalize_campaign_id on a raw id and a platform; the state keeps
\* two calls, so a third one is not taken
Normalize(raw, platform) ==
    /\ prev = NoCall
    /\ cur' = [kind |-> "call", raw |-> raw, platform |-> platform,
               out |-> normalize_campaign_id(raw, platform)]
    /\ prev' = cur
    /\ UNCHANGED <<metricVars, pipeVars>>

\* a call on the result of the call before, with the same platform (a
\* unified dataset fed to the pipeline again)
Renormalize ==
    /\ cur.kind = "call"
    /\ cur' = [kind |-> "again", raw |-> cur.out, platform |-> cur.platform,
               out |-> normalize_campaign_id(cur.out, cur.platform)]
    /\ prev' = cur
    /\ UNCHANGED <<metricVars, pipeVars>>

InitNormalize ==
    /\ cur = NoCall
    /\ prev = NoCall
    /\ mrow = NoRow
    /\ mout = NoRow
    /\ PipelineIdle

NextNormalize ==
    \/ \E raw \in RawIds, platform \in Platforms : Normalize(raw, platform)
    \/ Renormalize

SpecNormalize == InitNormalize /\ [][NextNormalize]_vars

----------------------------------------------------------------------------
(* Claims on normalize_campaign_id, checked under SpecNormalize *)

\* C2: normalising an already normalised id with the same platform returns it
\* unchanged, for every raw id (missing included) and every platform.
C2_Idempotent ==
    cur.kind = "again" => cur.out = prev.out

\* C2 on the platforms that do not begin with a blank: there the second call
\* returns what the first returned
C2_IdempotentOnTrimmedPlatforms ==
    cur.kind = "again" /\ Head(cur.platform) # " " => cur.out = prev.out

\* C3, as stated: a missing id gives platform_unknown, an id that does not
\* start with the platform gets platform and "_" prepended, any other id is
\* returned unchanged.
C3_AsStated ==
    cur.kind = "call" =>
        cur.out = IF cur.raw = Null
                  THEN cur.platform \o Underscore \o Unknown
                  ELSE IF ~startswith(cur.raw, cur.platform)
                       THEN cur.platform \o Underscore \o cur.raw
                       ELSE cur.raw

\* the raw id without the blanks around it, said without strip(): the longest
\* substring that neither begins nor ends with a blank
Trimmed(s) ==
    LET Inner == {i \in 1..Len(s) : s[i] # " "}
    IN  IF Inner = {} THEN <<>>
        ELSE SubSeq(s, CHOOSE i \in Inner : \A j \in Inner : i <= j,
                       CHOOSE i \in Inner : \A j \in Inner : j <= i)

\* C3, amended: the rule of C3 applies to the raw id with its leading and
\* trailing whitespace removed: prefix test, prepending and pass-through all
\* use the stripped id.
C3_Normalize ==
    cur.kind = "call" =>
        /\ cur.raw = Null => cur.out = cur.platform \o Underscore \o Unknown
        /\ cur.raw # Null /\ ~startswith(Trimmed(cur.raw), cur.platform)
              => cur.out = cur.platform \o Underscore \o Trimmed(cur.raw)
        /\ cur.raw # Null /\ startswith(Trimmed(cur.raw), cur.platform)
              => cur.out = Trimmed(cur.raw)

\* C3 witness: a call on a present id with a blank before it that starts with
\* the platform once stripped, and is passed through stripped.
C3_Witness ==
    /\ cur.kind = "call"
    /\ cur.raw # Null
    /\ cur.raw # Trimmed(cur.raw)
    /\ startswith(Trimmed(cur.raw), cur.platform)
    /\ cur.out = Trimmed(cur.raw)

\* both calls of the state are calls on raw ids
TwoCalls == prev.kind = "call" /\ cur.kind = "call"

\* C4, as stated: two calls with distinct platforms never return the same id,
\* whatever the raw ids.
C4_AsStated ==
    TwoCalls /\ prev.platform # cur.platform => prev.out # cur.out

\* C4, amended: two calls with platforms neither of which is a prefix of the
\* other never return the same id, whatever the raw ids.
C4_NoCollision ==
    /\ TwoCalls
    /\ ~startswith(prev.platform, cur.platform)
    /\ ~startswith(cur.platform, prev.platform)
    => prev.out # cur.out

\* C4 witness: the same present raw id normalised for two platforms that are
\* no prefix of one another, with two different results.
C4_Witness ==
    /\ TwoCalls
    /\ prev.raw = cur.raw
    /\ cur.raw \notin {Null, <<>>}
    /\ prev.platform = <<"g">>
    /\ cur.platform = <<"f">>
    /\ prev.out # cur.out

----------------------------------------------------------------------------
(* The raw tables *)

GoogleAds == <<"g", "o", "o", "g", "l", "e", "_", "a", "d", "s">>

FacebookAds == <<"f", "a", "c", "e", "b", "o", "o", "k", "_", "a", "d", "s">>

\* the characters of the ids of the tables, in code point order
CodePoints ==
    <<" ", "1", "2", "_", "a", "b", "c", "d", "e", "f", "g", "k", "l", "n",
      "o", "s", "u", "w">>

ord(c) == CHOOSE i \in 1..Len(CodePoints) : CodePoints[i] = c

\* a < b for two Python strings
RECURSIVE str_lt(_, _)
str_lt(a, b) ==
    IF b = <<>> THEN FALSE
    ELSE IF a = <<>> THEN TRUE
    ELSE IF Head(a) = Head(b) THEN str_lt(Tail(a), Tail(b))
    ELSE ord(Head(a)) < ord(Head(b))

\* A date cell is the text YYYY-MM-DD as <<year, month, day>>, which need not
\* be a date of the calendar; the empty cell, and the NaT / NaN a date that
\* does not parse becomes, is the empty tuple.
NaT == <<>>

Jan1 == <<2024, 1, 1>>
Jan2 == <<2024, 1, 2>>
Feb30 == <<2024, 2, 30>>

IsLeap(y) == (y % 4 = 0 /\ y % 100 # 0) \/ y % 400 = 0

DaysIn(y, m) ==
    IF m = 2 THEN (IF IsLeap(y) THEN 29 ELSE 28)
    ELSE IF m \in {4, 6, 9, 11} THEN 30 ELSE 31

\* a cell of a numeric column: a number, a text that is no number, or empty
Cell(v) == [t |-> "num", v |-> v]
Text == [t |-> "text", v |-> 0]
Blank == [t |-> "nan", v |-> 0]

\* The rows a raw table of platform p is made of (campaign_name, which the
\* pipeline never reads, is left out): a plain row; a row whose id carries the
\* platform already and whose counters are 0; a row with a text for clicks and
\* no cost; a row with no id and a date that is no calendar date; a row with
\* no date and a negative counter; a row whose id begins with the platform
\* name without the underscore.
RawRows(p) ==
    {[campaign_id |-> <<"1">>, date |-> Jan2, platform |-> p,
      impressions |-> Cell(10), clicks |-> Cell(2), conversions |-> Cell(1),
      cost |-> Cell(4), revenue |-> Cell(8)],
     [campaign_id |-> p \o <<"_", "1">>, date |-> Jan2, platform |-> p,
      impressions |-> Cell(0), clicks |-> Cell(0), conversions |-> Cell(0),
      cost |-> Cell(0), revenue |-> Cell(0)],
     [campaign_id |-> <<"2">>, date |-> Jan1, platform |-> p,
      impressions |-> Cell(10), clicks |-> Text, conversions |-> Cell(1),
      cost |-> Blank, revenue |-> Cell(8)],
     [campaign_id |-> Null, date |-> Feb30, platform |-> p,
      impressions |-> Cell(10), clicks |-> Cell(2), conversions |-> Cell(1),
      cost |-> Cell(4), revenue |-> Cell(8)],
     [campaign_id |-> <<"2">>, date |-> NaT, platform |-> p,
      impressions |-> Cell(-1), clicks |-> Cell(2), conversions |-> Cell(1),
      cost |-> Cell(4), revenue |-> Cell(8)],
     [campaign_id |-> p \o <<"2">>, date |-> Jan1, platform |-> p,
      impressions |-> Cell(10), clicks |-> Cell(2), conversions |-> Cell(1),
      cost |-> Cell(4), revenue |-> Cell(8)]}

\* the tables of at most n rows of platform p
Tables(p, n) == UNION {[1..k -> RawRows(p)] : k \in 0..n}

NumericCols == {"impressions", "clicks", "conversions", "cost", "revenue"}

----------------------------------------------------------------------------
(* etl/clean_merge.py: clean_and_merge *)

\* pd.read_csv of a raw file; src, the file and the line a row comes from, is
\* kept with the row to tell the rows apart, it is no column
read_csv(name, rows) ==
    [k \in 1..Len(rows) |->
        [src |-> <<name, k>>, campaign_id |-> rows[k].campaign_id,
         date |-> rows[k].date, platform |-> rows[k].platform,
         impressions |-> rows[k].impressions, clicks |-> rows[k].clicks,
         conversions |-> rows[k].conversions, cost |-> rows[k].cost,
         revenue |-> rows[k].revenue]]

\* the frame that leaves every missing table out and fails only on rows
combine_without_raise(google, facebook) ==
    [raised |-> FALSE,
     df |-> (IF google = Absent THEN <<>> ELSE read_csv("google_ads.csv", google))
            \o (IF facebook = Absent THEN <<>>
                ELSE read_csv("facebook_ads.csv", facebook))]

\* the frame that needs both tables
combine_both_required(google, facebook) ==
    IF google # Absent /\ facebook # Absent
    THEN [raised |-> FALSE,
          df |-> read_csv("google_ads.csv", google)
                 \o read_csv("facebook_ads.csv", facebook)]
    ELSE [raised |-> TRUE, df |-> <<>>]

\* lines 84-107: the frames read from the files that exist, concatenated, or
\* the ValueError when none exists
combine(google, facebook) ==
    IF google # Absent /\ facebook # Absent
    THEN [raised |-> FALSE,
          df |-> read_csv("google_ads.csv", google)
                 \o read_csv("facebook_ads.csv", facebook)]
    ELSE IF google # Absent
    THEN [raised |-> FALSE, df |-> read_csv("google_ads.csv", google)]
    ELSE IF facebook # Absent
    THEN [raised |-> FALSE, df |-> read_csv("facebook_ads.csv", facebook)]
    ELSE [raised |-> TRUE, df |-> <<>>]

\* lines 84-96: the lines printed for the files that do not exist
not_found(google, facebook) ==
    (IF google = Absent THEN {"google_ads.csv not found"} ELSE {})
    \cup (IF facebook = Absent THEN {"facebook_ads.csv not found"} ELSE {})

\* the coercion that fills with 1
to_numeric_fill_one(cell) ==
    IF cell.t = "num" THEN cell.v ELSE 1

\* line 120: pd.to_numeric(errors="coerce") and fillna(0) on one cell
to_numeric_fillna(cell) ==
    fillna(IF cell.t = "num" THEN num(cell.v) ELSE NA)[1]

\* lines 124-125: pd.to_datetime(errors="coerce") and strftime("%Y-%m-%d") on
\* one cell; what is no date of the calendar becomes NaT, written NaN
to_datetime_strftime(cell) ==
    IF /\ cell # NaT
       /\ cell[2] \in 1..12
       /\ cell[3] \in 1..DaysIn(cell[1], cell[2])
    THEN cell
    ELSE NaT

\* a cleaning that puts 0 for a negative number of impressions once the
\* metrics are computed
clean_row_clip_after(r) ==
    LET n == [src |-> r.src,
              campaign_id |-> normalize_campaign_id(r.campaign_id, r.platform),
              date |-> to_datetime_strftime(r.date),
              platform |-> r.platform,
              impressions |-> to_numeric_fillna(r.impressions),
              clicks |-> to_numeric_fillna(r.clicks),
              conversions |-> to_numeric_fillna(r.conversions),
              cost |-> to_numeric_fillna(r.cost),
              revenue |-> to_numeric_fillna(r.revenue)]
        m == compute_metrics(n)
    IN  [src |-> n.src, campaign_id |-> n.campaign_id, date |-> n.date,
         platform |-> n.platform,
         impressions |-> IF n.impressions < 0 THEN 0 ELSE n.impressions,
         clicks |-> n.clicks, conversions |-> n.conversions, cost |-> n.cost,
         revenue |-> n.revenue, ctr |-> m.ctr, cpc |-> m.cpc, roas |-> m.roas,
         conversion_rate |-> m.conversion_rate]

\* lines 111-129 on one row: the id normalised, the numeric columns coerced,
\* the date parsed and formatted, the metrics computed
clean_row(r) ==
    LET n == [src |-> r.src,
              campaign_id |-> normalize_campaign_id(r.campaign_id, r.platform),
              date |-> to_datetime_strftime(r.date),
              platform |-> r.platform,
              impressions |-> to_numeric_fillna(r.impressions),
              clicks |-> to_numeric_fillna(r.clicks),
              conversions |-> to_numeric_fillna(r.conversions),
              cost |-> to_numeric_fillna(r.cost),
              revenue |-> to_numeric_fillna(r.revenue)]
        m == compute_metrics(n)
    IN  [src |-> n.src, campaign_id |-> n.campaign_id, date |-> n.date,
         platform |-> n.platform, impressions |-> n.impressions,
         clicks |-> n.clicks, conversions |-> n.conversions, cost |-> n.cost,
         revenue |-> n.revenue, ctr |-> m.ctr, cpc |-> m.cpc, roas |-> m.roas,
         conversion_rate |-> m.conversion_rate]

\* a < b for two dates <<year, month, day>>
date_lt(a, b) ==
    \/ a[1] < b[1]
    \/ a[1] = b[1] /\ a[2] < b[2]
    \/ a[1] = b[1] /\ a[2] = b[2] /\ a[3] < b[3]

\* the order that sorts the dates ascending
sorts_before_ascending(a, b) ==
    \/ a.date # NaT /\ b.date = NaT
    \/ a.date # NaT /\ b.date # NaT /\ date_lt(a.date, b.date)
    \/ a.date = b.date /\ str_lt(a.platform, b.platform)
    \/ a.date = b.date /\ a.platform = b.platform
         /\ str_lt(a.campaign_id, b.campaign_id)

\* line 132: row a sorts strictly before row b under ["date", "platform",
\* "campaign_id"], ascending=[False, True, True], a missing date last
sorts_before(a, b) ==
    \/ a.date # NaT /\ b.date = NaT
    \/ a.date # NaT /\ b.date # NaT /\ date_lt(b.date, a.date)
    \/ a.date = b.date /\ str_lt(a.platform, b.platform)
    \/ a.date = b.date /\ a.platform = b.platform
         /\ str_lt(a.campaign_id, b.campaign_id)

\* x put into the sorted frame, behind the rows it does not sort before
RECURSIVE insert_sorted(_, _)
insert_sorted(df, x) ==
    IF df = <<>> THEN <<x>>
    ELSE IF sorts_before(x, Head(df)) THEN <<x>> \o df
    ELSE <<Head(df)>> \o insert_sorted(Tail(df), x)

\* line 132: DataFrame.sort_values on several columns, a stable sort
RECURSIVE sort_values(_)
sort_values(df) ==
    IF df = <<>> THEN <<>>
    ELSE insert_sorted(sort_values(SubSeq(df, 1, Len(df) - 1)), df[Len(df)])

\* a unifier that leaves out the rows whose date did not parse
unify_dropna(df) ==
    LET dated(r) == r.date # NaT
    IN  SelectSeq(sort_values([i \in 1..Len(df) |-> clean_row(df[i])]), dated)

\* lines 109-135: the unified frame of a combined frame
unify(df) == sort_values([i \in 1..Len(df) |-> clean_row(df[i])])

\* Series.unique(): the values of a column in the order they first appear
RECURSIVE unique(_)
unique(col) ==
    IF col = <<>> THEN <<>>
    ELSE LET u == unique(SubSeq(col, 1, Len(col) - 1))
         IN  IF \E i \in 1..Len(u) : u[i] = col[Len(col)]
             THEN u
             ELSE Append(u, col[Len(col)])

\* Series.min() and Series.max() of the date column: NaN is skipped, and the
\* result is NaN when no date is left
date_min(df) ==
    LET ds == {df[i].date : i \in 1..Len(df)} \ {NaT}
    IN  IF ds = {} THEN NaT
        ELSE CHOOSE d \in ds : \A e \in ds : ~date_lt(e, d)

date_max(df) ==
    LET ds == {df[i].date : i \in 1..Len(df)} \ {NaT}
    IN  IF ds = {} THEN NaT
        ELSE CHOOSE d \in ds : \A e \in ds : ~date_lt(d, e)

\* lines 140-145: what clean_and_merge prints once the CSV is written: the
\* number of rows, the number of campaigns, the platforms, the date range
summary(df) ==
    [kind |-> "summary",
     total_rows |-> Len(df),
     campaigns |-> Cardinality({df[i].campaign_id : i \in 1..Len(df)}),
     platforms |-> unique([i \in 1..Len(df) |-> df[i].platform]),
     date_from |-> date_min(df),
     date_to |-> date_max(df)]

\* clean_and_merge(raw_data_dir, output_dir), the step of the pipeline that
\* comes before the load
CleanAndMerge ==
    /\ cmResult = "none"
    /\ lpc = "idle"
    /\ LET c == combine(googleFile, facebookFile)
       IN  /\ console' = console \cup not_found(googleFile, facebookFile)
           /\ IF c.raised
              THEN /\ cmResult' = "raised"
                   /\ unifiedCsv' = unifiedCsv
                   /\ report' = report
              ELSE /\ cmResult' = "returned"
                   /\ unifiedCsv' = unify(c.df)
                   /\ report' = summary(unify(c.df))
    /\ UNCHANGED <<normVars, metricVars, fileVars, loadVars, dashVars>>

----------------------------------------------------------------------------
(* etl/load_to_duckdb.py: main and load_to_duckdb, statement by statement *)

AllIndexes == {"idx_date", "idx_platform", "idx_campaign"}

\* lines 70-81: main returns when the unified CSV does not exist and calls
\* load_to_duckdb otherwise
LoadMain ==
    /\ lpc = "idle"
    /\ lpc' = IF unifiedCsv = Absent THEN "skipped" ELSE "connect"
    /\ storeBefore' = store
    /\ UNCHANGED <<normVars, metricVars, fileVars, cleanVars, dashVars, store, ldf>>

\* a load that drops the table as soon as it is connected, before the CSV is
\* read
ConnectAndDrop ==
    /\ lpc = "connect"
    /\ store' = [file |-> TRUE, table |-> NoTable, indexes |-> {}]
    /\ lpc' = "read"
    /\ UNCHANGED <<normVars, metricVars, fileVars, cleanVars, dashVars, ldf, storeBefore>>

\* line 29: duckdb.connect creates the database file when there is none
Connect ==
    /\ lpc = "connect"
    /\ store' = [store EXCEPT !.file = TRUE]
    /\ lpc' = "read"
    /\ UNCHANGED <<normVars, metricVars, fileVars, cleanVars, dashVars, ldf, storeBefore>>

\* line 33: df = pd.read_csv(csv_path)
ReadCsv ==
    /\ lpc = "read"
    /\ unifiedCsv # Absent
    /\ ldf' = unifiedCsv
    /\ lpc' = "drop"
    /\ UNCHANGED <<normVars, metricVars, fileVars, cleanVars, dashVars, store, storeBefore>>

\* line 37: DROP TABLE IF EXISTS, committed on its own; the indexes of the
\* table go with it
DropTable ==
    /\ lpc = "drop"
    /\ store' = [store EXCEPT !.table = NoTable, !.indexes = {}]
    /\ lpc' = "create"
    /\ UNCHANGED <<normVars, metricVars, fileVars, cleanVars, dashVars, ldf, storeBefore>>

\* a load that appends the rows of the CSV to the table it found
AppendToTable ==
    /\ lpc = "create"
    /\ store' = [store EXCEPT !.table =
                     (IF storeBefore.table = NoTable THEN <<>>
                      ELSE storeBefore.table) \o ldf]
    /\ lpc' = "index"
    /\ UNCHANGED <<normVars, metricVars, fileVars, cleanVars, dashVars, ldf, storeBefore>>

\* line 40: CREATE TABLE ... AS SELECT * FROM df, one statement
CreateTable ==
    /\ lpc = "create"
    /\ store' = [store EXCEPT !.table = ldf]
    /\ lpc' = "index"
    /\ UNCHANGED <<normVars, metricVars, fileVars, cleanVars, dashVars, ldf, storeBefore>>

\* an index block without the try: a CREATE INDEX that fails ends the load
CreateIndexesOrRaise ==
    /\ lpc = "index"
    /\ \E built \in {{}, {"idx_date"}, {"idx_date", "idx_platform"}, AllIndexes} :
          /\ store' = [store EXCEPT !.indexes = built]
          /\ lpc' = IF built = AllIndexes THEN "count" ELSE "failed"
    /\ UNCHANGED <<normVars, metricVars, fileVars, cleanVars, dashVars, ldf, storeBefore>>

\* lines 44-49: the three CREATE INDEX statements in one try block: the first
\* that fails ends the block, and the exception is printed and dropped
CreateIndexes ==
    /\ lpc = "index"
    /\ \E built \in {{}, {"idx_date"}, {"idx_date", "idx_platform"}, AllIndexes} :
          store' = [store EXCEPT !.indexes = built]
    /\ lpc' = "count"
    /\ UNCHANGED <<normVars, metricVars, fileVars, cleanVars, dashVars, ldf, storeBefore>>

\* lines 52-61: the three counts and conn.close()
CountAndClose ==
    /\ lpc = "count"
    /\ lpc' = "done"
    /\ UNCHANGED <<normVars, metricVars, fileVars, cleanVars, dashVars, store, ldf,
                   storeBefore>>

\* the statement load_to_duckdb stands at raises (the file is locked or
\* unreadable, the disk is full): the exception leaves load_to_duckdb, and
\* the statement has changed nothing
LoadFails ==
    /\ lpc \in {"connect", "read", "drop", "create"}
    /\ lpc' = "failed"
    /\ UNCHANGED <<normVars, metricVars, fileVars, cleanVars, dashVars, store, ldf,
                   storeBefore>>

----------------------------------------------------------------------------
(* The pipeline: the two raw files, an earlier run's CSV and store *)

\* the unified dataset an earlier run wrote, and the one the store was loaded
\* from before that
PriorUnified ==
    unify(combine(<<CHOOSE r \in RawRows(GoogleAds) : r.campaign_id = <<"1">>>>,
                  <<CHOOSE r \in RawRows(FacebookAds) : r.campaign_id = <<"1">>>>).df)

OlderUnified ==
    unify(combine(<<CHOOSE r \in RawRows(GoogleAds) : r.campaign_id = <<"2">>
                                                     /\ r.date = Jan1>>,
                  Absent).df)

PriorStore == [file |-> TRUE, table |-> OlderUnified, indexes |-> AllIndexes]

\* the length of a table, 0 for a file that does not exist
Rows(file) == IF file = Absent THEN 0 ELSE Len(file)

Init ==
    /\ googleFile \in {Absent} \cup Tables(GoogleAds, MaxRows)
    /\ facebookFile \in {Absent} \cup Tables(FacebookAds, MaxRows)
    /\ Rows(googleFile) + Rows(facebookFile) <= MaxRows
    /\ unifiedCsv \in {Absent, PriorUnified}
    /\ store \in {NoStore, PriorStore}
    /\ console = {}
    /\ cmResult = "none"
    /\ lpc = "idle"
    /\ ldf = <<>>
    /\ storeBefore = store
    /\ report = NoReport
    /\ DashboardIdle
    /\ cur = NoCall
    /\ prev = NoCall
    /\ mrow = NoRow
    /\ mout = NoRow

Next ==
    \/ CleanAndMerge
    \/ LoadMain
    \/ Connect
    \/ ReadCsv
    \/ DropTable
    \/ CreateTable
    \/ CreateIndexes
    \/ CountAndClose
    \/ LoadFails

Spec == Init /\ [][Next]_vars

----------------------------------------------------------------------------
(* Claims on clean_and_merge and load_to_duckdb, checked under Spec *)

\* the raw row a unified row comes from
RawOf(src) ==
    IF src[1] = "google_ads.csv" THEN googleFile[src[2]] ELSE facebookFile[src[2]]

\* the place of that raw row in the concatenated input, google_ads.csv first
ConcatPos(src) ==
    IF src[1] = "google_ads.csv" THEN src[2] ELSE Rows(googleFile) + src[2]

\* the file and line of every row of the raw files that exist
InputSrcs ==
    {<<"google_ads.csv", k>> : k \in 1..Rows(googleFile)}
    \cup {<<"facebook_ads.csv", k>> : k \in 1..Rows(facebookFile)}

SameKey(a, b) ==
    a.date = b.date /\ a.platform = b.platform /\ a.campaign_id = b.campaign_id

\* a may stand before b: its date is later, or the dates are equal and its
\* platform is smaller, or both are equal and its id is not greater; a row
\* without a date stands behind every row with one
InOrder(a, b) ==
    IF a.date # b.date
    THEN b.date = NaT \/ (a.date # NaT /\ date_lt(b.date, a.date))
    ELSE IF a.platform # b.platform
    THEN str_lt(a.platform, b.platform)
    ELSE ~str_lt(b.campaign_id, a.campaign_id)

\* C5: whatever the order of the input rows, the unified dataset
\* clean_and_merge writes is ordered by (date descending, platform ascending,
\* campaign_id ascending), and rows with equal (date, platform, campaign_id)
\* keep the order they have in the concatenated input.
C5_SortedStable ==
    cmResult = "returned" =>
        \A i, j \in 1..Len(unifiedCsv) :
            i < j =>
                /\ InOrder(unifiedCsv[i], unifiedCsv[j])
                /\ SameKey(unifiedCsv[i], unifiedCsv[j])
                      => ConcatPos(unifiedCsv[i].src) < ConcatPos(unifiedCsv[j].src)

\* C5 witness: a unified dataset of three rows, two of them with equal keys,
\* with two dates, whose first row is not the first row of the input.
C5_Witness ==
    /\ cmResult = "returned"
    /\ Len(unifiedCsv) >= 3
    /\ \E i, j \in 1..Len(unifiedCsv) :
          i < j /\ SameKey(unifiedCsv[i], unifiedCsv[j])
    /\ \E i, j \in 1..Len(unifiedCsv) :
          /\ unifiedCsv[i].date # NaT /\ unifiedCsv[j].date # NaT
          /\ unifiedCsv[i].date # unifiedCsv[j].date
    /\ ConcatPos(unifiedCsv[1].src) # 1

\* C6: with neither raw file present clean_and_merge raises before it writes:
\* the unified CSV and the store are what they were.
C6_NoInputNoWrite ==
    [][(/\ cmResult = "none"
        /\ cmResult' # "none"
        /\ googleFile = Absent
        /\ facebookFile = Absent)
       => /\ cmResult' = "raised"
          /\ unifiedCsv' = unifiedCsv
          /\ store' = store]_vars

\* C6 witness: clean_and_merge has raised, and the CSV and the store of the
\* earlier runs are there as they were.
C6_Witness ==
    /\ cmResult = "raised"
    /\ googleFile = Absent /\ facebookFile = Absent
    /\ unifiedCsv = PriorUnified
    /\ store = PriorStore

OnePresent == (googleFile = Absent) # (facebookFile = Absent)

PresentName == IF googleFile # Absent THEN "google_ads.csv" ELSE "facebook_ads.csv"

PresentPlatform == IF googleFile # Absent THEN GoogleAds ELSE FacebookAds

MissingLine ==
    IF googleFile = Absent
    THEN "google_ads.csv not found" ELSE "facebook_ads.csv not found"

IsCalendarDate(d) ==
    /\ d # NaT
    /\ d[2] \in 1..12
    /\ d[3] >= 1
    /\ d[3] <= DaysIn(d[1], d[2])

\* C8: no raw row whose date does not parse to a date of the calendar is in
\* the unified dataset, and every row of it has a date YYYY-MM-DD.
C8_BadDatesDropped ==
    cmResult = "returned" =>
        \A i \in 1..Len(unifiedCsv) :
            /\ IsCalendarDate(RawOf(unifiedCsv[i].src).date)
            /\ IsCalendarDate(unifiedCsv[i].date)

\* C9: every raw row is in the unified dataset, with 0 in place of each value
\* of impressions, clicks, conversions, cost and revenue that is no number or
\* is missing, and with the numbers as they were.
C9_Coerced ==
    cmResult = "returned" =>
        /\ Len(unifiedCsv) = Cardinality(InputSrcs)
        /\ \A s \in InputSrcs :
              \E i \in 1..Len(unifiedCsv) :
                  /\ unifiedCsv[i].src = s
                  /\ \A col \in NumericCols :
                        unifiedCsv[i][col] =
                            IF RawOf(s)[col].t = "num" THEN RawOf(s)[col].v ELSE 0

\* C9 witness: a unified row that comes from a raw row with a text for clicks
\* and no cost, with 0 for both and its impressions kept.
C9_Witness ==
    /\ cmResult = "returned"
    /\ \E i \in 1..Len(unifiedCsv) :
          /\ RawOf(unifiedCsv[i].src).clicks.t = "text"
          /\ RawOf(unifiedCsv[i].src).cost.t = "nan"
          /\ unifiedCsv[i].clicks = 0
          /\ unifiedCsv[i].cost = 0
          /\ unifiedCsv[i].impressions = 10

\* C10: when load_to_duckdb fails, at whatever statement, the table holds the
\* complete dataset it held before or the complete new one: it is neither
\* gone nor partial.
C10_FailedLoadKeepsTable ==
    lpc = "failed" /\ storeBefore.table # NoTable =>
        store.table \in {storeBefore.table, unifiedCsv}

\* the values of the numeric columns of the raw rows that are no number, and
\* the raw rows whose date is no date of the calendar
Repaired ==
    {<<s, col>> \in InputSrcs \X NumericCols : RawOf(s)[col].t # "num"}

Unparsable == {s \in InputSrcs : ~IsCalendarDate(RawOf(s).date)}

\* C20: the summary clean_and_merge prints gives the number of values it
\* replaced by 0 and the number of rows it left out for their date.
C20_CountsReported ==
    cmResult = "returned" =>
        /\ "repaired" \in DOMAIN report
        /\ report.repaired = Cardinality(Repaired)
        /\ "excluded" \in DOMAIN report
        /\ report.excluded = Cardinality(Unparsable)

----------------------------------------------------------------------------
(* dashboard/app.py: the demo frame and load_data *)

\* two of the products and two of the regions of generate_demo_data, and the
\* order Python gives these strings
NameOrder == <<"Coconut Water", "Cold Brew Coffee", "Midwest", "Northeast">>

Products == {"Coconut Water", "Cold Brew Coffee"}
Regions == {"Midwest", "Northeast"}
DemoDates == {Jan1, Jan2}

rank(name) == CHOOSE i \in 1..Len(NameOrder) : NameOrder[i] = name

\* round(x, 3) of a quotient n/d with d > 0, in thousandths
round3(n, d) == round2(<<10 * n, d>>)

\* lines 222-304: one row of the demo frame. The draws of numpy.random are
\* fixed by product and day here: a Cold Brew Coffee row has revenue 20, cogs
\* 10 and marketing spend 4, a Coconut Water row revenue 5, cogs 5 and no
\* marketing spend, and a row has as many orders as the day of its date. The
\* two margins are derived from them as lines 285-286 and 297-298 do, and are
\* kept in thousandths.
demo_row(date, product, region) ==
    LET revenue == IF product = "Cold Brew Coffee" THEN 20 ELSE 5
        cogs == IF product = "Cold Brew Coffee" THEN 10 ELSE 5
        marketing_spend == IF product = "Cold Brew Coffee" THEN 4 ELSE 0
    IN  [date |-> date, product_name |-> product, region |-> region,
         orders |-> date[3], revenue |-> revenue, cogs |-> cogs,
         marketing_spend |-> marketing_spend,
         gross_margin |-> round3(revenue - cogs, revenue),
         contribution_margin |->
             round3(revenue - cogs - marketing_spend, revenue)]

DemoRows ==
    {demo_row(d, p, r) : d \in DemoDates, p \in Products, r \in Regions}

\* line 306: pd.DataFrame(data); idx is the index of the frame, which a
\* selection of rows keeps
DataFrame(data) ==
    [i \in 1..Len(data) |->
        [idx |-> i, date |-> data[i].date,
         product_name |-> data[i].product_name, region |-> data[i].region,
         orders |-> data[i].orders, revenue |-> data[i].revenue,
         cogs |-> data[i].cogs, marketing_spend |-> data[i].marketing_spend,
         gross_margin |-> data[i].gross_margin,
         contribution_margin |-> data[i].contribution_margin]]

\* the frames generate_demo_data can return, of at most n rows
DemoFrames(n) == {DataFrame(data) : data \in UNION {[1..k -> DemoRows] : k \in 0..n}}

\* the demo frame of the sessions that run beside a load
DemoFrame ==
    DataFrame(<<demo_row(Jan1, "Cold Brew Coffee", "Midwest"),
                demo_row(Jan2, "Coconut Water", "Northeast")>>)

\* a load_data that queries the table of the store
load_data_from_store(st, cached, generated) == st.table

\* lines 313-327: load_data(db_path) under st.cache_data: the frame cached for
\* db_path when there is one, and generate_demo_data() otherwise; the store at
\* db_path is not read
load_data(st, cached, generated) ==
    IF cached # NoFrame THEN cached ELSE generated

\* a session of the dashboard calls load_data, at any moment of a load
LoadData ==
    /\ view' = [frame |-> load_data(store, cache, demo), at |-> lpc]
    /\ cache' = load_data(store, cache, demo)
    /\ UNCHANGED <<normVars, metricVars, fileVars, cleanVars, loadVars, demo, dash>>

----------------------------------------------------------------------------
(* The load beside a session of the dashboard: load_to_duckdb run, and run *)
(* again, on a unified CSV                                                 *)

\* most rows of the unified CSV the load is run on
MaxLoadRows == 2

\* the unified datasets clean_and_merge writes from google_ads.csv alone
Datasets ==
    {unify(combine(g, Absent).df) : g \in Tables(GoogleAds, MaxLoadRows)}

\* lines 70-81: main is run again once a load has ended
LoadMainAgain ==
    /\ lpc \in {"done", "failed"}
    /\ lpc' = IF unifiedCsv = Absent THEN "skipped" ELSE "connect"
    /\ storeBefore' = store
    /\ UNCHANGED <<normVars, metricVars, fileVars, cleanVars, dashVars, store, ldf>>

InitLoad ==
    /\ googleFile = Absent
    /\ facebookFile = Absent
    /\ unifiedCsv \in {Absent} \cup Datasets
    /\ store \in {NoStore, PriorStore}
    /\ console = {}
    /\ cmResult = "none"
    /\ report = NoReport
    /\ lpc = "idle"
    /\ ldf = <<>>
    /\ storeBefore = store
    /\ demo = DemoFrame
    /\ cache = NoFrame
    /\ view = NoView
    /\ dash = NoDash
    /\ cur = NoCall
    /\ prev = NoCall
    /\ mrow = NoRow
    /\ mout = NoRow

NextLoad ==
    \/ LoadMain
    \/ LoadMainAgain
    \/ Connect
    \/ ReadCsv
    \/ DropTable
    \/ CreateTable
    \/ CreateIndexes
    \/ CountAndClose
    \/ LoadFails
    \/ LoadData

SpecLoad == InitLoad /\ [][NextLoad]_vars

----------------------------------------------------------------------------
(* Claims on load_to_duckdb and load_data, checked under SpecLoad *)

\* C11: once load_to_duckdb has completed, the table holds exactly the rows
\* of the unified CSV, whatever the table held before the load; a load run
\* again on the same CSV, over the table an earlier run left, leaves the
\* same rows.
C11_FullReplace ==
    lpc = "done" =>
        /\ store.table = unifiedCsv
        /\ (storeBefore.table = unifiedCsv => store.table = storeBefore.table)

\* C11 witness: a load has completed over a table of other rows, and a load
\* has completed over the table an earlier run on the same CSV left without
\* its indexes.
C11_Witness ==
    /\ lpc = "done"
    /\ Len(unifiedCsv) > 0
    /\ store.table = unifiedCsv
    /\ \/ storeBefore = PriorStore /\ PriorStore.table # unifiedCsv
       \/ storeBefore.table = unifiedCsv /\ storeBefore.indexes = {}

\* C12: the step load_to_duckdb takes from the index block goes on to the
\* counts with the table holding the whole new dataset, whichever indexes
\* were built, and the step it takes from the counts ends the load normally
\* with the store as it is.
C12_IndexFailureNotFatal ==
    [][/\ lpc = "index" /\ lpc' # lpc =>
             /\ lpc' = "count"
             /\ store'.table = unifiedCsv
             /\ store'.file
       /\ lpc = "count" /\ lpc' # lpc => lpc' = "done" /\ store' = store]_vars

\* C12 witness: a load that completed with an index missing, its table
\* holding the rows of the CSV.
C12_Witness ==
    /\ lpc = "done"
    /\ store.indexes # AllIndexes
    /\ Len(unifiedCsv) > 0
    /\ store.table = unifiedCsv

\* a frame that is no whole snapshot of the store: no table at all, or rows
\* of the table without being the table as it was before the load or as the
\* CSV gives it
Torn(frame) ==
    \/ frame = NoTable
    \/ /\ frame \notin {NoFrame, storeBefore.table, unifiedCsv}
       /\ \E i \in 1..Len(frame) :
             \/ storeBefore.table # NoTable
                  /\ \E j \in 1..Len(storeBefore.table) :
                        frame[i] = storeBefore.table[j]
             \/ unifiedCsv # Absent
                  /\ \E j \in 1..Len(unifiedCsv) : frame[i] = unifiedCsv[j]

----------------------------------------------------------------------------
(* dashboard/app.py: main, from load_data to the top products *)

\* most rows of the demo frame of a session
MaxDemoRows == 2

\* lines 391-397: what st.date_input returns for a range: the two dates once
\* both are picked, within the dates of the frame, or the first date alone
\* while the second is not picked yet
DateRanges ==
    {r \in DemoDates \X DemoDates : ~date_lt(r[2], r[1])} \cup {<<Jan1>>}

\* the metrics of the "Sort by" box that the model keeps
SortOptions == {"orders", "revenue"}

\* create_product_chart is called with top_n = 8 at line 563; it is called
\* with 1 as well here, so that the cut happens on frames this small
TopNs == {1, 8}

\* a filter whose range leaves its last day out
filter_rows_before_end(df, start_date, end_date, selected_regions, selected_products) ==
    LET keep(r) == /\ ~date_lt(r.date, start_date)
                   /\ date_lt(r.date, end_date)
                   /\ r.region \in selected_regions
                   /\ r.product_name \in selected_products
    IN  SelectSeq(df, keep)

\* lines 427-432: the rows of df within [start_date, end_date] whose region
\* and product are among the selected ones, in the order of df
filter_rows(df, start_date, end_date, selected_regions, selected_products) ==
    LET keep(r) == /\ ~date_lt(r.date, start_date)
                   /\ ~date_lt(end_date, r.date)
                   /\ r.region \in selected_regions
                   /\ r.product_name \in selected_products
    IN  SelectSeq(df, keep)

\* Series.sum() of a column: 0 for no row
RECURSIVE sum(_, _)
sum(df, col) ==
    IF df = <<>> THEN 0
    ELSE sum(SubSeq(df, 1, Len(df) - 1), col) + df[Len(df)][col]

\* Series.mean() of a column, as the fraction sum/count: NaN for no row
mean(df, col) == IF df = <<>> THEN NA ELSE <<sum(df, col), Len(df)>>

\* a quotient of two Python floats, which raises ZeroDivisionError
truediv_python(n, d) ==
    [raised |-> d = 0, value |-> IF d = 0 THEN NA ELSE <<n, d>>]

\* line 468: the quotient of two numpy.float64 sums: NaN for 0/0, with a
\* warning and no exception
truediv(n, d) ==
    [raised |-> FALSE, value |-> IF d = 0 THEN NA ELSE <<n, d>>]

\* a KPI summary whose gross margin is the rate of the summed columns
kpis_from_sums(fdf) ==
    [total_revenue |-> sum(fdf, "revenue"),
     total_orders |-> sum(fdf, "orders"),
     total_cogs |-> sum(fdf, "cogs"),
     total_marketing_spend |-> sum(fdf, "marketing_spend"),
     avg_gross_margin |->
         truediv(1000 * (sum(fdf, "revenue") - sum(fdf, "cogs")),
                 sum(fdf, "revenue")).value,
     contribution_margin |->
         truediv(sum(fdf, "revenue") - sum(fdf, "cogs")
                     - sum(fdf, "marketing_spend"),
                 sum(fdf, "revenue"))]

\* lines 438-447 and 468: the sums, the mean of the gross margins of the
\* rows, and the contribution margin, which is the rate of the sums
kpis(fdf) ==
    [total_revenue |-> sum(fdf, "revenue"),
     total_orders |-> sum(fdf, "orders"),
     total_cogs |-> sum(fdf, "cogs"),
     total_marketing_spend |-> sum(fdf, "marketing_spend"),
     avg_gross_margin |-> mean(fdf, "gross_margin"),
     contribution_margin |->
         truediv(sum(fdf, "revenue") - sum(fdf, "cogs")
                     - sum(fdf, "marketing_spend"),
                 sum(fdf, "revenue"))]

\* the key of a row for a groupby on the columns by
key_of(r, by) == [i \in 1..Len(by) |-> r[by[i]]]

\* the order of the values of a column: dates by the calendar, names as
\* Python orders strings
value_lt(col, a, b) ==
    IF col = "date" THEN date_lt(a, b) ELSE rank(a) < rank(b)

\* the lexicographic order of the keys of a groupby
RECURSIVE key_lt(_, _, _)
key_lt(by, a, b) ==
    /\ by # <<>>
    /\ \/ value_lt(by[1], a[1], b[1])
       \/ a[1] = b[1] /\ key_lt(Tail(by), Tail(a), Tail(b))

\* the keys of a groupby, sorted (sort=True is the default)
RECURSIVE sorted_keys(_, _)
sorted_keys(keys, by) ==
    IF keys = {} THEN <<>>
    ELSE LET k == CHOOSE x \in keys : \A y \in keys : ~key_lt(by, y, x)
         IN  <<k>> \o sorted_keys(keys \ {k}, by)

\* a groupby that makes one group of all the rows
groupby_agg_all(fdf, by) ==
    IF fdf = <<>> THEN <<>>
    ELSE <<[key |-> key_of(fdf[1], by),
            orders |-> sum(fdf, "orders"),
            revenue |-> sum(fdf, "revenue"),
            gross_margin |-> mean(fdf, "gross_margin")]>>

\* lines 525-541: groupby(by).agg({...}).reset_index(): one row for each key
\* of fdf, in the order of the keys, with the sums of orders and revenue and
\* the mean of gross_margin over the rows of that key
groupby_agg(fdf, by) ==
    LET keys == sorted_keys({key_of(fdf[i], by) : i \in 1..Len(fdf)}, by)
        rows_of(k) == LET has(r) == key_of(r, by) = k IN SelectSeq(fdf, has)
    IN  [g \in 1..Len(keys) |->
            [key |-> keys[g],
             orders |-> sum(rows_of(keys[g]), "orders"),
             revenue |-> sum(rows_of(keys[g]), "revenue"),
             gross_margin |-> mean(rows_of(keys[g]), "gross_margin")]]

\* lines 534 and 562: sort_values(col, ascending=False) on one column, with
\* the default kind="quicksort", which is not stable: the orders it can
\* return are the permutations of the frame with col descending, the rows of
\* equal value in any order
sort_values_desc(frame, col) ==
    {[i \in 1..Len(frame) |-> frame[p[i]]] :
        p \in {q \in [1..Len(frame) -> 1..Len(frame)] :
                  /\ \A i, j \in 1..Len(frame) : i # j => q[i] # q[j]
                  /\ \A i, j \in 1..Len(frame) :
                        i < j => frame[q[i]][col] >= frame[q[j]][col]}}

\* DataFrame.head(n)
head(frame, n) == SubSeq(frame, 1, IF n < Len(frame) THEN n ELSE Len(frame))

\* lines 80-82: the frame create_product_chart draws
create_product_chart(product_df, metric, top_n) == head(product_df, top_n)

\* lines 362-563: one run of main. The frame comes from load_data; an empty
\* frame stops the run (lines 365-367). The widgets give the date range, the
\* regions and the products selected among those of the frame, the metric to
\* sort by; a date range that is no pair of dates makes the comparison of
\* line 428 raise.
Main ==
    /\ dash = NoDash
    /\ LET df == load_data(store, cache, demo)
       IN  /\ cache' = df
           /\ view' = [frame |-> df, at |-> lpc]
           /\ IF df = <<>>
              THEN dash' = [kind |-> "stopped"]
              ELSE \E date_range \in DateRanges,
                      selected_regions \in
                          SUBSET {df[i].region : i \in 1..Len(df)},
                      selected_products \in
                          SUBSET {df[i].product_name : i \in 1..Len(df)},
                      selected_sort \in SortOptions,
                      top_n \in TopNs :
                     IF Len(date_range) # 2
                     THEN dash' = [kind |-> "raised", line |-> 428]
                     ELSE LET fdf == filter_rows(df, date_range[1],
                                                 date_range[2],
                                                 selected_regions,
                                                 selected_products)
                              kpi == kpis(fdf)
                          IN  \E product_df \in
                                     sort_values_desc(
                                         groupby_agg(fdf, <<"product_name",
                                                            "region">>),
                                         "revenue") :
                                \E product_df_sorted \in
                                       sort_values_desc(product_df,
                                                        selected_sort) :
                                  dash' =
                                      [kind |-> IF kpi.contribution_margin.raised
                                                THEN "raised" ELSE "run",
                                       df |-> df,
                                       start_date |-> date_range[1],
                                       end_date |-> date_range[2],
                                       selected_regions |-> selected_regions,
                                       selected_products |-> selected_products,
                                       filtered_df |-> fdf,
                                       kpi |-> kpi,
                                       daily_df |->
                                           groupby_agg(fdf, <<"date", "region">>),
                                       product_df |-> product_df,
                                       region_df |->
                                           groupby_agg(fdf, <<"region">>),
                                       selected_sort |-> selected_sort,
                                       product_df_sorted |-> product_df_sorted,
                                       top_n |-> top_n,
                                       top_products |->
                                           create_product_chart(
                                               product_df_sorted,
                                               selected_sort, top_n)]
    /\ UNCHANGED <<normVars, metricVars, fileVars, cleanVars, loadVars, demo>>

InitDashboard ==
    /\ demo \in DemoFrames(MaxDemoRows)
    /\ cache = NoFrame
    /\ view = NoView
    /\ dash = NoDash
    /\ googleFile = Absent
    /\ facebookFile = Absent
    /\ unifiedCsv = Absent
    /\ console = {}
    /\ cmResult = "none"
    /\ report = NoReport
    /\ store = NoStore
    /\ lpc = "idle"
    /\ ldf = <<>>
    /\ storeBefore = NoStore
    /\ cur = NoCall
    /\ prev = NoCall
    /\ mrow = NoRow
    /\ mout = NoRow

NextDashboard == Main

SpecDashboard == InitDashboard /\ [][NextDashboard]_vars

----------------------------------------------------------------------------
(* Claims on the dashboard's main, checked under SpecDashboard *)

\* a run of main that went through the filter, whether it ended or raised
\* later
Filtered == dash.kind \in {"run", "raised"} /\ "filtered_df" \in DOMAIN dash

\* the date of a row is within the range selected, both ends included
InRange(r) ==
    /\ r.date = dash.start_date \/ date_lt(dash.start_date, r.date)
    /\ r.date = dash.end_date \/ date_lt(r.date, dash.end_date)

\* a row satisfies the three predicates of the filter
Matches(r) ==
    /\ InRange(r)
    /\ r.region \in dash.selected_regions
    /\ r.product_name \in dash.selected_products

\* C14: the filtered frame holds exactly the rows of the frame whose date is
\* within [start, end], ends included, whose region is selected and whose
\* product is selected: each such row once, in the order of the frame, and
\* no other row.
C14_FilterExact ==
    dash.kind = "run" =>
        LET f == dash.filtered_df
        IN  /\ \A i \in 1..Len(f) :
                  /\ f[i].idx \in 1..Len(dash.df)
                  /\ f[i] = dash.df[f[i].idx]
                  /\ Matches(f[i])
            /\ \A k \in 1..Len(dash.df) :
                  Matches(dash.df[k]) => \E i \in 1..Len(f) : f[i].idx = k
            /\ \A i, j \in 1..Len(f) : i < j => f[i].idx < f[j].idx

\* C14 witness: a range of one day that keeps the row of that day and leaves
\* out a row of a selected region and product for its date.
C14_Witness ==
    /\ dash.kind = "run"
    /\ dash.start_date = dash.end_date
    /\ Len(dash.filtered_df) = 1
    /\ dash.filtered_df[1].date = dash.end_date
    /\ \E k \in 1..Len(dash.df) :
          /\ ~InRange(dash.df[k])
          /\ dash.df[k].region \in dash.selected_regions
          /\ dash.df[k].product_name \in dash.selected_products

\* C15: with no product selected, the filtered frame holds the rows the date
\* range and the regions select.
C15_EmptyMeansAll ==
    dash.kind = "run" /\ dash.selected_products = {} =>
        LET f == dash.filtered_df
        IN  \A k \in 1..Len(dash.df) :
                InRange(dash.df[k]) /\ dash.df[k].region \in dash.selected_regions
                    => \E i \in 1..Len(f) : f[i].idx = k

\* the sum of a column over the rows of a frame, taken over the set of its
\* positions in no order
RECURSIVE TotalOver(_, _, _)
TotalOver(f, col, S) ==
    IF S = {} THEN 0
    ELSE LET i == CHOOSE x \in S : TRUE
         IN  f[i][col] + TotalOver(f, col, S \ {i})

Total(f, col) == TotalOver(f, col, 1..Len(f))

\* the frames that hold the rows of f in another order
Permuted(f) ==
    {[i \in 1..Len(f) |-> f[p[i]]] :
        p \in {q \in [1..Len(f) -> 1..Len(f)] :
                  \A i, j \in 1..Len(f) : i # j => q[i] # q[j]}}

\* the additive KPIs are the sums over the filtered rows, and the same
\* sums for the rows in any order
SumsOk ==
    LET f == dash.filtered_df
        k == dash.kpi
    IN  /\ k.total_revenue = Total(f, "revenue")
        /\ k.total_orders = Total(f, "orders")
        /\ k.total_cogs = Total(f, "cogs")
        /\ k.total_marketing_spend = Total(f, "marketing_spend")
        /\ \A g \in Permuted(f) :
              /\ kpis(g).total_revenue = k.total_revenue
              /\ kpis(g).total_orders = k.total_orders
              /\ kpis(g).total_cogs = k.total_cogs
              /\ kpis(g).total_marketing_spend = k.total_marketing_spend

\* a KPI, a fraction or NaN, is the unweighted mean of a column that holds
\* thousandths
IsMeanOf(kpi, col, scale) ==
    LET f == dash.filtered_df
    IN  IF f = <<>> THEN kpi = NA
        ELSE /\ kpi # NA
             /\ kpi[1] * scale * Len(f) = Total(f, col) * kpi[2]

\* C16 as stated: the KPI summary holds the sums of the additive metrics and,
\* for the gross margin and for the contribution margin, the unweighted mean
\* of the values of the rows.
C16_AsStated ==
    dash.kind = "run" =>
        /\ SumsOk
        /\ IsMeanOf(dash.kpi.avg_gross_margin, "gross_margin", 1)
        /\ IsMeanOf(dash.kpi.contribution_margin.value,
                    "contribution_margin", 1000)

\* C16: the KPI summary holds the sums of revenue, orders, cogs and marketing
\* spend over the filtered rows, the same in any order of the rows; the gross
\* margin is the unweighted mean of the gross margins of the rows; the
\* contribution margin is the rate of the sums, (revenue - cogs - marketing
\* spend) / revenue, and NaN when the revenue is 0.
C16_KpiSummary ==
    dash.kind = "run" =>
        LET k == dash.kpi
        IN  /\ SumsOk
            /\ IsMeanOf(k.avg_gross_margin, "gross_margin", 1)
            /\ IF k.total_revenue = 0
               THEN k.contribution_margin.value = NA
               ELSE k.contribution_margin.value =
                        <<k.total_revenue - k.total_cogs
                              - k.total_marketing_spend, k.total_revenue>>

\* C16 witness: two filtered rows of gross margins 0.5 and 0, whose mean,
\* 0.25, is not the rate of their sums, 10/25, and whose contribution margin
\* is the rate of the sums, 6/25.
C16_Witness ==
    /\ dash.kind = "run"
    /\ Len(dash.filtered_df) = 2
    /\ dash.kpi.total_revenue = 25
    /\ dash.kpi.total_cogs = 15
    /\ dash.kpi.avg_gross_margin = <<500, 2>>
    /\ dash.kpi.contribution_margin.value = <<6, 25>>

\* the positions of the filtered rows whose key on the columns by is k
RowsOf(by, k) ==
    {i \in 1..Len(dash.filtered_df) : key_of(dash.filtered_df[i], by) = k}

\* a grouped frame has one row for each key of the filtered rows and no
\* other, and the orders and the revenue of a row are the sums over the
\* filtered rows of its key, and of no other row
GroupedBy(frame, by) ==
    LET f == dash.filtered_df
        keys == {key_of(f[i], by) : i \in 1..Len(f)}
    IN  /\ Len(frame) = Cardinality(keys)
        /\ {frame[g].key : g \in 1..Len(frame)} = keys
        /\ \A g \in 1..Len(frame) :
              /\ frame[g].orders = TotalOver(f, "orders", RowsOf(by, frame[g].key))
              /\ frame[g].revenue =
                     TotalOver(f, "revenue", RowsOf(by, frame[g].key))

\* C17: each of the three grouped frames, by date and region, by product and
\* region, and by region, has exactly one row for each distinct key among the
\* filtered rows, and its orders and revenue are the sums over the rows of
\* that key only.
C17_GroupedSums ==
    dash.kind = "run" =>
        /\ GroupedBy(dash.daily_df, <<"date", "region">>)
        /\ GroupedBy(dash.product_df, <<"product_name", "region">>)
        /\ GroupedBy(dash.region_df, <<"region">>)

\* C17 witness: two filtered rows of one region, of revenue 20 and 5, give
\* one row of revenue 25 by region and two rows, of revenue 20 and 5, by
\* product and region.
C17_Witness ==
    /\ dash.kind = "run"
    /\ Len(dash.filtered_df) = 2
    /\ Len(dash.region_df) = 1
    /\ dash.region_df[1].revenue = 25
    /\ Len(dash.product_df) = 2
    /\ {dash.product_df[g].revenue : g \in 1..2} = {20, 5}

\* the orders of a frame a stable descending sort on column col returns:
\* equal values keep the order of the frame
sort_values_stable(frame, col) ==
    {[i \in 1..Len(frame) |-> frame[p[i]]] :
        p \in {q \in [1..Len(frame) -> 1..Len(frame)] :
                  /\ \A i, j \in 1..Len(frame) : i # j => q[i] # q[j]
                  /\ \A i, j \in 1..Len(frame) :
                        i < j => \/ frame[q[i]][col] > frame[q[j]][col]
                                 \/ /\ frame[q[i]][col] = frame[q[j]][col]
                                    /\ q[i] < q[j]}}

\* C18: the top products are the top_n first groups, all of them when there
\* are fewer, of the grouped frame sorted by the chosen metric, largest
\* first, the groups of equal value in the order they had in the grouped
\* frame.
C18_TopNStable ==
    dash.kind = "run" =>
        \E s \in sort_values_stable(dash.product_df, dash.selected_sort) :
            dash.top_products = head(s, dash.top_n)

\* C19: when the filter selects no row, main goes through the KPIs and the
\* grouped frames without raising: the sums are 0, the mean and the
\* contribution margin are NaN, and the grouped frames and the top products
\* are empty.
C19_EmptyResult ==
    Filtered /\ dash.filtered_df = <<>> =>
        /\ dash.kind = "run"
        /\ dash.kpi.total_revenue = 0
        /\ dash.kpi.total_orders = 0
        /\ dash.kpi.total_cogs = 0
        /\ dash.kpi.total_marketing_spend = 0
        /\ dash.kpi.avg_gross_margin = NA
        /\ dash.kpi.contribution_margin.value = NA
        /\ dash.daily_df = <<>>
        /\ dash.product_df = <<>>
        /\ dash.region_df = <<>>
        /\ dash.top_products = <<>>

\* C19 witness: a frame with rows, regions and products selected, and a date
\* range that holds none of the rows.
C19_Witness ==
    /\ dash.kind = "run"
    /\ dash.df # <<>>
    /\ dash.selected_regions # {}
    /\ dash.selected_products # {}
    /\ dash.filtered_df = <<>>
    /\ dash.region_df = <<>>

----------------------------------------------------------------------------
(* Further claims on clean_and_merge, checked under Spec *)

\* C21: in the unified dataset, impressions, clicks, conversions, cost and
\* revenue are 0 or more in every row.
C21_CountersNonNegative ==
    cmResult = "returned" =>
        \A i \in 1..Len(unifiedCsv) :
            \A col \in NumericCols : unifiedCsv[i][col] >= 0

----------------------------------------------------------------------------
(* A further claim on compute_metrics, checked under SpecMetrics *)

\* n/d, with n >= 0 and d > 0, rounded to a hundredth, an exact half upwards,
\* in hundredths
HalfUp(n, d) == (200 * n + d) \div (2 * d)

\* C22: the metric of a row with a positive denominator and a numerator that
\* is not negative is the exact quotient rounded once to two decimals, half
\* up: 1/8 = 0.125 gives 0.13.
C22_HalfUp ==
    mout # NoRow =>
        /\ mrow.impressions > 0 /\ mrow.clicks >= 0 =>
               mout.ctr = HalfUp(mrow.clicks * 100, mrow.impressions)
        /\ mrow.clicks > 0 /\ mrow.cost >= 0 =>
               mout.cpc = HalfUp(mrow.cost, mrow.clicks)
        /\ mrow.cost > 0 /\ mrow.revenue >= 0 =>
               mout.roas = HalfUp(mrow.revenue, mrow.cost)
        /\ mrow.clicks > 0 /\ mrow.conversions >= 0 =>
               mout.conversion_rate =
                   HalfUp(mrow.conversions * 100, mrow.clicks)

----------------------------------------------------------------------------
(* Further claims on clean_and_merge, checked under Spec: ids and rows *)

\* C23: in every row of the unified dataset the campaign id begins with the
\* platform of that row followed by an underscore.
C23_IdHasPlatformPrefix ==
    cmResult = "returned" =>
        \A i \in 1..Len(unifiedCsv) :
            startswith(unifiedCsv[i].campaign_id,
                       unifiedCsv[i].platform \o Underscore)

----------------------------------------------------------------------------
(* Further claims on load_data and load_to_duckdb, checked under SpecLoad *)

\* C24: the frame load_data returns once a load has given the table other
\* rows is the table of the rebuilt store.
C24_FreshAfterRebuild ==
    /\ lpc = "done"
    /\ view.at = "done"
    /\ store.table # storeBefore.table
    => view.frame = store.table

----------------------------------------------------------------------------
(* Further claims on clean_and_merge, checked under Spec: metrics and rows *)

\* the metric of a numerator n and a denominator d as lines 49-59 compute it,
\* in hundredths: 0 for a denominator 0, the rounded quotient otherwise
Metric(n, d, scale) == IF d = 0 THEN 0 ELSE round2(<<n * scale, d>>)

\* C25: in every row of the unified dataset, ctr, cpc, roas and
\* conversion_rate are the metric formulas applied to the impressions,
\* clicks, conversions, cost and revenue of that same row as the dataset
\* holds them, and these are the coerced values of the raw row.
C25_DerivedFromRow ==
    cmResult = "returned" =>
        \A i \in 1..Len(unifiedCsv) :
            LET r == unifiedCsv[i]
            IN  /\ r.ctr = Metric(r.clicks, r.impressions, 100)
                /\ r.cpc = Metric(r.cost, r.clicks, 1)
                /\ r.roas = Metric(r.revenue, r.cost, 1)
                /\ r.conversion_rate = Metric(r.conversions, r.clicks, 100)
                /\ \A col \in NumericCols :
                      r[col] = IF RawOf(r.src)[col].t = "num"
                               THEN RawOf(r.src)[col].v ELSE 0

\* C25 witness: a unified row whose clicks and cost were coerced to 0 has the
\* metrics of those zeros, and a unified row with a negative counter has the
\* metric of that counter.
C25_Witness ==
    /\ cmResult = "returned"
    /\ \E i \in 1..Len(unifiedCsv) :
          /\ RawOf(unifiedCsv[i].src).clicks.t = "text"
          /\ unifiedCsv[i].clicks = 0
          /\ unifiedCsv[i].ctr = 0
          /\ unifiedCsv[i].cpc = 0
          /\ unifiedCsv[i].roas = 0
    /\ \E i \in 1..Len(unifiedCsv) :
          /\ unifiedCsv[i].impressions = -1
          /\ unifiedCsv[i].ctr = -20000

\* C26: the unified dataset has as many rows as the files that exist have
\* together, every row of these files is in it exactly once, and every row
\* of it is a row of these files with its id normalised.
C26_NoRowLost ==
    cmResult = "returned" =>
        /\ Len(unifiedCsv) = Rows(googleFile) + Rows(facebookFile)
        /\ \A s \in InputSrcs :
              Cardinality({i \in 1..Len(unifiedCsv) : unifiedCsv[i].src = s}) = 1
        /\ \A i \in 1..Len(unifiedCsv) :
              /\ unifiedCsv[i].src \in InputSrcs
              /\ unifiedCsv[i].platform = RawOf(unifiedCsv[i].src).platform
              /\ unifiedCsv[i].campaign_id =
                     normalize_campaign_id(RawOf(unifiedCsv[i].src).campaign_id,
                                           RawOf(unifiedCsv[i].src).platform)

\* C26 witness: three raw rows, two of them the same row twice and one with
\* a date that is no date, give three unified rows.
C26_Witness ==
    /\ cmResult = "returned"
    /\ Rows(googleFile) + Rows(facebookFile) = 3
    /\ Len(unifiedCsv) = 3
    /\ \E i \in 1..3 : unifiedCsv[i].date = NaT
    /\ \E i, j \in 1..3 :
          /\ i # j
          /\ RawOf(unifiedCsv[i].src) = RawOf(unifiedCsv[j].src)

----------------------------------------------------------------------------
(* A further claim on load_to_duckdb and its main, checked under SpecLoad *)

\* C27: up to the reading of the CSV the table and its indexes are as they
\* were when the load began, so a load that fails there has dropped nothing;
\* the first DROP comes after the CSV is read; and main, when there is no
\* CSV, ends without opening or changing the store.
C27_ReadBeforeDrop ==
    [][/\ lpc \in {"connect", "read"} =>
             /\ store.table = storeBefore.table
             /\ store.indexes = storeBefore.indexes
       /\ lpc = "read" /\ lpc' = "failed" =>
             /\ store'.table = storeBefore.table
             /\ store'.indexes = storeBefore.indexes
       /\ store'.table # store.table /\ store'.table = NoTable =>
             /\ lpc = "drop"
             /\ ldf = unifiedCsv
       /\ lpc = "idle" /\ unifiedCsv = Absent /\ lpc' # lpc =>
             /\ lpc' = "skipped"
             /\ store' = store
       /\ lpc = "skipped" => store' = store /\ lpc' = "skipped"]_vars

\* C27 witness: a load over a store with a table has failed before the CSV
\* was read in, and the table and the indexes are whole.
C27_Witness ==
    /\ lpc = "failed"
    /\ unifiedCsv # Absent
    /\ Len(unifiedCsv) > 0
    /\ ldf = <<>>
    /\ storeBefore = PriorStore
    /\ store = PriorStore

----------------------------------------------------------------------------
(* A further claim on normalize_campaign_id, checked under SpecNormalize *)

\* both calls of the state are calls on present raw ids, for one platform
SamePlatform ==
    /\ TwoCalls
    /\ prev.platform = cur.platform
    /\ prev.raw # Null
    /\ cur.raw # Null

\* C28, as stated: two calls for one platform on two distinct present raw ids
\* never return the same id, and a call on a present raw id never returns
\* the platform's unknown id.
C28_AsStated ==
    /\ SamePlatform /\ prev.raw # cur.raw => prev.out # cur.out
    /\ cur.kind = "call" /\ cur.raw # Null =>
           cur.out # cur.platform \o Underscore \o Unknown

\* C28, amended: two calls for one platform on present raw ids return the
\* same id only when the two ids are equal once stripped, or one of them,
\* stripped, is the other with the platform and an underscore before it; and
\* a call on a present raw id returns the platform's unknown id only when the
\* stripped id is "unknown" or is that unknown id already.
C28_InjectiveUpToForm ==
    /\ SamePlatform /\ prev.out = cur.out =>
           \/ strip(prev.raw) = strip(cur.raw)
           \/ strip(prev.raw) = cur.platform \o Underscore \o strip(cur.raw)
           \/ strip(cur.raw) = cur.platform \o Underscore \o strip(prev.raw)
    /\ /\ cur.kind = "call"
       /\ cur.raw # Null
       /\ cur.out = cur.platform \o Underscore \o Unknown
       => strip(cur.raw) \in {Unknown, cur.out}

\* C28 witness: two distinct present raw ids of one platform, equal once
\* stripped, with the same result.
C28_Witness ==
    /\ SamePlatform
    /\ cur.platform = <<"g">>
    /\ prev.raw = <<"f">>
    /\ cur.raw = <<"f", " ">>
    /\ prev.out = cur.out
    /\ cur.out = <<"g", "_", "f">>

====
